---- MODULE Spec2Model ----
(***************************************************************************)
(* fixed_deque::Deque<T>: a VecDeque<T> with a maximum length (src/lib.rs). *)
(* A deque value is the record [deque |-> elements front-to-back,          *)
(* maxlen |-> maximum length, cap |-> capacity of the VecDeque's storage]. *)
(* Every method is an operator from the old                                *)
(* value and the arguments to the record                                   *)
(*   [self |-> new value, ret |-> returned value, panic |-> BOOLEAN].      *)
(* Option<T> is a sequence of length at most one.  A panic leaves the      *)
(* value as it was at the point the panic was raised.                      *)
(***************************************************************************)
EXTENDS Integers, Sequences, FiniteSets

\* ---------------------------------------------------------------- bounds
MaxValue == 2
MaxMaxlen == 3
MaxDequeLen == 3
MaxIterLen == 2
\* By how much the model lets a deque outgrow its maxlen.
MaxExcess == 1

Values == 1..MaxValue
SeqsUpTo(n) == UNION {[1..k -> Values] : k \in 0..n}

\* ------------------------------------------------------- Option<T>, results
None == <<>>
Some(x) == <<x>>

Ok(self, r) == [self |-> self, ret |-> r, panic |-> FALSE]
Panic(self) == [self |-> self, ret |-> None, panic |-> TRUE]

Min(a, b) == IF a <= b THEN a ELSE b

Max(a, b) == IF a >= b THEN a ELSE b

\* ------------------------------------------- std sequence operations used
\* Vec::truncate / VecDeque::truncate: keep the first n elements.
Truncate_keeps_tail(s, n) ==
    IF n < Len(s) THEN SubSeq(s, Len(s) - n + 1, Len(s)) ELSE s

Truncate(s, n) == IF n < Len(s) THEN SubSeq(s, 1, n) ELSE s

\* Iterator::take(n) collected.
Take(s, n) == SubSeq(s, 1, Min(n, Len(s)))

\* VecDeque::pop_front and VecDeque::pop_back.
VecPopFront(s) ==
    IF s = <<>> THEN [rest |-> s, ret |-> None]
    ELSE [rest |-> Tail(s), ret |-> Some(Head(s))]

VecPopBack(s) ==
    IF s = <<>> THEN [rest |-> s, ret |-> None]
    ELSE [rest |-> SubSeq(s, 1, Len(s) - 1), ret |-> Some(s[Len(s)])]

\* VecDeque::insert(index, value) for index <= len (0-based index).
VecInsert(s, index, value) ==
    SubSeq(s, 1, index) \o <<value>> \o SubSeq(s, index + 1, Len(s))

\* VecDeque::remove(index) for index < len (0-based index).
VecRemove(s, index) ==
    SubSeq(s, 1, index) \o SubSeq(s, index + 2, Len(s))

\* Smallest non-empty allocation of the storage of a VecDeque whose elements
\* are a few bytes wide (the i32 of the tests).
MinNonZeroCap == 4

\* Capacity of the storage after making room for `needed` elements: unchanged
\* when they fit, otherwise at least doubled.  The storage never shrinks.
Grow(cap, needed) ==
    IF needed <= cap THEN cap
    ELSE Max(Max(2 * cap, needed), MinNonZeroCap)

\* Capacity of the storage after n calls of push (Vec) or push_back (VecDeque) on
\* a collection of length length.
RECURSIVE PushedStorage(_, _, _)
PushedStorage(storage, length, n) ==
    IF n = 0 THEN storage
    ELSE PushedStorage(Grow(storage, length + 1), length + 1, n - 1)

\* Room beyond its n elements in a collection made empty (Vec::new,
\* what a decoder or a collect starts from when nothing is announced) and
\* filled by pushes.
PushedSpare(n) == PushedStorage(0, 0, n) - n

\* Spare room of the sources the model builds deques from.  A source of n
\* elements has whatever allocation it was given before: none to spare
\* (vec![..]), room left by elements taken away again (Vec::pop, a filter
\* collected in place, a partly consumed vec::IntoIter) or asked for
\* (with_capacity), or what growth by pushes left.  The model takes every
\* allocation of at most MaxDequeLen elements, and the pushed one.
SourceSpares(n) == (0..(MaxDequeLen - n)) \cup {PushedSpare(n)}

\* slice::reverse.
Reverse(s) == [i \in 1..Len(s) |-> s[Len(s) + 1 - i]]

\* ------------------------------------------------------------ constructors
\* A Vec or VecDeque handed to a constructor keeps its allocation: spare is
\* the room it has beyond its elements (0 for vec![..], more for one built
\* by pushes or with_capacity), and truncating it keeps the storage.
new(m) == [deque |-> <<>>, maxlen |-> m, cap |-> m]

from(value, m) == [deque |-> <<value>>, maxlen |-> m, cap |-> 1]

from_vec(vec, m, spare) ==
    [deque |-> Truncate(vec, m), maxlen |-> m, cap |-> Len(vec) + spare]

from_vec_deque(vd, m, spare) ==
    [deque |-> Truncate(vd, m), maxlen |-> m, cap |-> Len(vd) + spare]

from_tuple_value(value, m) == [deque |-> <<value>>, maxlen |-> m, cap |-> 1]

from_tuple_array(array, m) ==
    IF Len(array) > m
    THEN [deque |-> Take(array, m), maxlen |-> m, cap |-> m]
    ELSE [deque |-> array, maxlen |-> m, cap |-> Len(array)]

from_tuple_vec(vec, m, spare) ==
    [deque |-> Truncate(vec, m), maxlen |-> m, cap |-> Len(vec) + spare]

from_tuple_vec_deque(vd, m, spare) ==
    [deque |-> Truncate(vd, m), maxlen |-> m, cap |-> Len(vd) + spare]

\* Collecting with room for one more element than the iterator yields.
from_iter_spare_room(items, spare) ==
    from_vec_deque(items, Len(items) + 1, spare)

\* FromIterator::from_iter: items are the values the iterator yields, spare
\* the room VecDeque::from_iter allocated beyond them (0 for an iterator of
\* known length, more for one collected by pushes or out of a roomy Vec).
from_iter(items, spare) == from_vec_deque(items, Len(items), spare)

\* serde's size_hint::cautious: a decoder preallocates for the announced
\* length, but for no more than 1 MiB of elements (of the 4 bytes of an i32).
CautiousLimit == 262144

\* Deserialize::deserialize of a sequence that decodes to items: hint is the
\* size hint of the format's sequence access (None for serde_json::from_str,
\* Some(Len(items)) for serde_json::from_value).  The VecDeque is allocated
\* for the hint, capped at CautiousLimit, and filled by push_back.
deserialize(items, hint) ==
    [deque |-> items, maxlen |-> Len(items),
     cap |-> PushedStorage(IF hint = None THEN 0 ELSE Min(hint[1], CautiousLimit),
                           0, Len(items))]

\* Clone (derived): the elements and maxlen are copied, the clone of the
\* VecDeque is allocated for its length.
clone(self) ==
    [deque |-> self.deque, maxlen |-> self.maxlen, cap |-> Len(self.deque)]

\* Serialize::serialize: the elements front to back, without maxlen.
serialize(self) == self.deque

\* ----------------------------------------------------------------- queries
len(self) == Len(self.deque)

is_empty(self) == Len(self.deque) = 0

\* Front-to-back iteration of the owned deque, collected.
into_iter(self) == [i \in 1..Len(self.deque) |-> self.deque[i]]

capacity_without_min(self) == self.cap

capacity_as_remaining(self) == Min(self.cap, self.maxlen) - Len(self.deque)

capacity(self) == Min(self.cap, self.maxlen)

is_full_at_least(self) == Len(self.deque) >= self.maxlen

is_full(self) == Len(self.deque) = self.maxlen

remaining_capacity(self) ==
    IF self.maxlen >= Len(self.deque) THEN self.maxlen - Len(self.deque) ELSE 0

\* Deque::index: position (0-based) of the first element equal to value.
index(self, value) ==
    IF \E i \in 1..Len(self.deque) : self.deque[i] = value
    THEN Some((CHOOSE i \in 1..Len(self.deque) :
                 /\ self.deque[i] = value
                 /\ \A k \in 1..(i - 1) : self.deque[k] # value) - 1)
    ELSE None

\* VecDeque::get / front / back: bounds-checked access (0-based index).
get(self, idx) ==
    IF idx < Len(self.deque) THEN Some(self.deque[idx + 1]) ELSE None

front(self) == get(self, 0)

back_returns_front(self) == get(self, 0)

\* VecDeque::back is get(len.wrapping_sub(1)): out of bounds when empty.
back(self) ==
    IF Len(self.deque) = 0 THEN None ELSE get(self, Len(self.deque) - 1)

\* Index<usize>::index, deque[idx]: VecDeque's index is
\* get(idx).expect("Out of bounds access").
Index_index(self, idx) ==
    IF get(self, idx) = None THEN Panic(self) ELSE Ok(self, get(self, idx)[1])

\* Iterator::position on a sequence: 0-based position of the first match.
Position(s, value) ==
    IF \E i \in 1..Len(s) : s[i] = value
    THEN Some((CHOOSE i \in 1..Len(s) :
                 /\ s[i] = value
                 /\ \A k \in 1..(i - 1) : s[k] # value) - 1)
    ELSE None

\* The found position is reported relative to start.
index_range_relative(self, value, start, end) ==
    LET stop == Min(end, Len(self.deque))
    IN  IF start >= stop THEN None
        ELSE Position(SubSeq(self.deque, start + 1, stop), value)

\* Deque::index_range: iter().skip(start).take(end - start).position(..)
\* with end clamped to len, mapped back by + start.
index_range(self, value, start, end) ==
    LET stop == Min(end, Len(self.deque))
    IN  IF start >= stop THEN None
        ELSE LET pos == Position(SubSeq(self.deque, start + 1, stop), value)
             IN  IF pos = None THEN None ELSE Some(pos[1] + start)

\* Result<usize, usize> of a search: Ok(idx) or Err(idx).
SearchOk(idx) == [found |-> TRUE, idx |-> idx]

SearchErr(idx) == [found |-> FALSE, idx |-> idx]

\* Ord::cmp of an element with the searched value.
Cmp(e, x) == IF e < x THEN "Less" ELSE IF e = x THEN "Equal" ELSE "Greater"

\* The loop of slice::binary_search_by: halves size, keeping base at the last
\* probed position that is not Greater (0-based).
RECURSIVE SearchBase(_, _, _, _)
SearchBase(s, x, base, size) ==
    IF size <= 1 THEN base
    ELSE LET half == size \div 2
             mid == base + half
         IN  SearchBase(s, x,
                        IF Cmp(s[mid + 1], x) = "Greater" THEN base ELSE mid,
                        size - half)

\* Reports the last probed position as the insertion point.
slice_binary_search_err_base(s, x) ==
    IF s = <<>> THEN SearchErr(0)
    ELSE LET base == SearchBase(s, x, 0, Len(s))
         IN  IF Cmp(s[base + 1], x) = "Equal" THEN SearchOk(base)
             ELSE SearchErr(base)

\* slice::binary_search_by(|e| e.cmp(x)).
slice_binary_search(s, x) ==
    IF s = <<>> THEN SearchErr(0)
    ELSE LET base == SearchBase(s, x, 0, Len(s))
             cmp == Cmp(s[base + 1], x)
         IN  IF cmp = "Equal" THEN SearchOk(base)
             ELSE SearchErr(base + (IF cmp = "Less" THEN 1 ELSE 0))

\* Deque::binary_search, that is VecDeque::binary_search_by on the two slices
\* of the ring buffer: split is the length of the front slice (the whole
\* deque when the elements are contiguous).
binary_search(self, x, split) ==
    LET front_slice == SubSeq(self.deque, 1, split)
        back_slice == SubSeq(self.deque, split + 1, Len(self.deque))
        cmp_back == IF back_slice = <<>> THEN None
                    ELSE Some(Cmp(back_slice[1], x))
        in_back == slice_binary_search(back_slice, x)
    IN  IF cmp_back = Some("Equal") THEN SearchOk(split)
        ELSE IF cmp_back = Some("Less")
             THEN [in_back EXCEPT !.idx = in_back.idx + split]
             ELSE slice_binary_search(front_slice, x)

\* Lengths the front slice of a ring buffer holding n elements can have.
Splits(n) == IF n = 0 THEN {0} ELSE 1..n

\* Drops the first element instead of the last.
iter_except_last_skips_first(self) ==
    IF self.deque = <<>> THEN <<>> ELSE Tail(self.deque)

\* Deque::iter_except_last, collected: iter().take(len.saturating_sub(1)).
iter_except_last(self) ==
    Take(self.deque, IF Len(self.deque) >= 1 THEN Len(self.deque) - 1 ELSE 0)

\* PartialEq for Deque<T>, for Deque<T> with VecDeque<T>, and the reverse.
eq_derived(self, other) ==
    self.deque = other.deque /\ self.maxlen = other.maxlen

eq(self, other) == self.deque = other.deque

eq_vec_deque(self, vd) == self.deque = vd

vec_deque_eq(vd, self) == vd = self.deque

\* ------------------------------------------------------ push, pop, insert
\* Makes room at the back, the end the value is pushed to.
push_back_evicts_back(self, value) ==
    IF Len(self.deque) = self.maxlen
    THEN LET popped == VecPopBack(self.deque)
         IN  Ok([self EXCEPT !.deque = Append(popped.rest, value),
                             !.cap = Grow(self.cap, Len(popped.rest) + 1)],
                popped.ret)
    ELSE Ok([self EXCEPT !.deque = Append(self.deque, value),
                         !.cap = Grow(self.cap, Len(self.deque) + 1)], None)

\* Evicts the front without returning it.
push_back_drops_silently(self, value) ==
    IF Len(self.deque) = self.maxlen
    THEN LET popped == VecPopFront(self.deque)
         IN  Ok([self EXCEPT !.deque = Append(popped.rest, value),
                             !.cap = Grow(self.cap, Len(popped.rest) + 1)],
                None)
    ELSE Ok([self EXCEPT !.deque = Append(self.deque, value),
                         !.cap = Grow(self.cap, Len(self.deque) + 1)], None)

push_back(self, value) ==
    IF Len(self.deque) = self.maxlen
    THEN LET popped == VecPopFront(self.deque)
         IN  Ok([self EXCEPT !.deque = Append(popped.rest, value),
                             !.cap = Grow(self.cap, Len(popped.rest) + 1)],
                popped.ret)
    ELSE Ok([self EXCEPT !.deque = Append(self.deque, value),
                         !.cap = Grow(self.cap, Len(self.deque) + 1)], None)

\* Evicts only once the length has passed maxlen.
push_front_checks_overflow(self, value) ==
    IF Len(self.deque) > self.maxlen
    THEN LET popped == VecPopBack(self.deque)
         IN  Ok([self EXCEPT !.deque = <<value>> \o popped.rest,
                             !.cap = Grow(self.cap, Len(popped.rest) + 1)],
                popped.ret)
    ELSE Ok([self EXCEPT !.deque = <<value>> \o self.deque,
                         !.cap = Grow(self.cap, Len(self.deque) + 1)], None)

push_front(self, value) ==
    IF Len(self.deque) = self.maxlen
    THEN LET popped == VecPopBack(self.deque)
         IN  Ok([self EXCEPT !.deque = <<value>> \o popped.rest,
                             !.cap = Grow(self.cap, Len(popped.rest) + 1)],
                popped.ret)
    ELSE Ok([self EXCEPT !.deque = <<value>> \o self.deque,
                         !.cap = Grow(self.cap, Len(self.deque) + 1)], None)

pop_front(self) ==
    LET popped == VecPopFront(self.deque)
    IN  Ok([self EXCEPT !.deque = popped.rest], popped.ret)

pop_back_pops_front(self) ==
    LET popped == VecPopFront(self.deque)
    IN  Ok([self EXCEPT !.deque = popped.rest], popped.ret)

pop_back(self) ==
    LET popped == VecPopBack(self.deque)
    IN  Ok([self EXCEPT !.deque = popped.rest], popped.ret)

\* Makes room at the front in the full branch.
insert_evicts_front(self, idx, value) ==
    IF Len(self.deque) = self.maxlen
    THEN LET popped == VecPopFront(self.deque)
         IN  IF idx > Len(popped.rest)
             THEN Panic([self EXCEPT !.deque = popped.rest])
             ELSE Ok([self EXCEPT !.deque = VecInsert(popped.rest, idx, value),
                                  !.cap = Grow(self.cap, Len(popped.rest) + 1)],
                     popped.ret)
    ELSE IF idx > Len(self.deque)
         THEN Panic(self)
         ELSE Ok([self EXCEPT !.deque = VecInsert(self.deque, idx, value),
                              !.cap = Grow(self.cap, Len(self.deque) + 1)], None)

\* VecDeque::insert panics when index > len; the pop_back of the full branch
\* has already happened by then.
insert(self, idx, value) ==
    IF Len(self.deque) = self.maxlen
    THEN LET popped == VecPopBack(self.deque)
         IN  IF idx > Len(popped.rest)
             THEN Panic([self EXCEPT !.deque = popped.rest])
             ELSE Ok([self EXCEPT !.deque = VecInsert(popped.rest, idx, value),
                                  !.cap = Grow(self.cap, Len(popped.rest) + 1)],
                     popped.ret)
    ELSE IF idx > Len(self.deque)
         THEN Panic(self)
         ELSE Ok([self EXCEPT !.deque = VecInsert(self.deque, idx, value),
                              !.cap = Grow(self.cap, Len(self.deque) + 1)], None)

\* -------------------------------------------------- extend, extend_front
\* The loop `for item in iter { self.push_back(item); }`.
RECURSIVE push_back_each(_, _)
push_back_each(self, items) ==
    IF items = <<>> THEN self
    ELSE push_back_each(push_back(self, Head(items)).self, Tail(items))

\* Capacity of the storage after VecDeque::extend has taken the items of an
\* iterator: lowers[k] is the lower bound of the size_hint the iterator
\* reports once its k-th item is taken.  The first item, and every item taken
\* when the storage is full, reserves room for itself and for that lower
\* bound; the items between are written without reserving.  An iterator of
\* known length n (lowers = n-1, .., 0) so reserves for all n at once.
RECURSIVE ExtendedStorage(_, _, _, _)
ExtendedStorage(storage, length, lowers, first) ==
    IF lowers = <<>> THEN storage
    ELSE IF first \/ length = storage
         THEN ExtendedStorage(Grow(storage, length + Head(lowers) + 1),
                              length + 1, Tail(lowers), FALSE)
         ELSE ExtendedStorage(storage, length + 1, Tail(lowers), FALSE)

extend_bulk_ignores_len(self, items, lowers, upper) ==
    IF upper # None /\ upper[1] <= self.maxlen
    THEN Ok([self EXCEPT !.deque = self.deque \o items,
                         !.cap = ExtendedStorage(self.cap, Len(self.deque),
                                                 lowers, TRUE)],
            None)
    ELSE Ok(push_back_each(self, items), None)

\* Extend<T>::extend: items are the values the iterator yields, upper the
\* upper bound of its size_hint before any is taken (None, or Some(u) with
\* u >= Len(items)), lowers the lower bounds it reports while it is consumed
\* (Len(lowers) = Len(items)).
extend(self, items, lowers, upper) ==
    IF upper # None /\ upper[1] <= remaining_capacity(self)
    THEN Ok([self EXCEPT !.deque = self.deque \o items,
                         !.cap = ExtendedStorage(self.cap, Len(self.deque),
                                                 lowers, TRUE)],
            None)
    ELSE Ok(push_back_each(self, items), None)

\* Takes the bulk branch whatever the iterator reports.
extend_ref_always_bulk(self, items, lowers, upper) ==
    Ok([self EXCEPT !.deque = self.deque \o items,
                    !.cap = ExtendedStorage(self.cap, Len(self.deque),
                                            lowers, TRUE)],
       None)

\* Extend<&T>::extend (T: Copy): items are the values the references point to.
\* The bulk branch copies them in VecDeque::extend, the other branch in the
\* loop `for &item in iter { self.push_back(item); }`.
extend_ref(self, items, lowers, upper) ==
    IF upper # None /\ upper[1] <= remaining_capacity(self)
    THEN Ok([self EXCEPT !.deque = self.deque \o items,
                         !.cap = ExtendedStorage(self.cap, Len(self.deque),
                                                 lowers, TRUE)],
            None)
    ELSE Ok(push_back_each(self, items), None)

\* The loop `for item in iter { self.push_front(item); }`.
RECURSIVE extend_front_loop(_, _)
extend_front_loop(self, items) ==
    IF items = <<>> THEN self
    ELSE extend_front_loop(push_front(self, Head(items)).self, Tail(items))

extend_front_pushes_back(self, items) == Ok(push_back_each(self, items), None)

extend_front(self, items) == Ok(extend_front_loop(self, items), None)

\* ------------------------------------------------------ removal, reshaping
clear_resets_maxlen(self) ==
    Ok([deque |-> <<>>, maxlen |-> 0, cap |-> self.cap], None)

clear(self) == Ok([self EXCEPT !.deque = <<>>], None)

truncate(self, n) == Ok([self EXCEPT !.deque = Truncate(self.deque, n)], None)

\* VecDeque::swap_remove_back in place of VecDeque::remove.
remove_swaps_back(self, idx) ==
    IF idx < Len(self.deque)
    THEN Ok([self EXCEPT !.deque =
                 IF idx + 1 = Len(self.deque)
                 THEN SubSeq(self.deque, 1, idx)
                 ELSE SubSeq([self.deque EXCEPT ![idx + 1] =
                                  self.deque[Len(self.deque)]],
                             1, Len(self.deque) - 1)],
            Some(self.deque[idx + 1]))
    ELSE Ok(self, None)

remove(self, idx) ==
    IF idx < Len(self.deque)
    THEN Ok([self EXCEPT !.deque = VecRemove(self.deque, idx)],
            Some(self.deque[idx + 1]))
    ELSE Ok(self, None)

remove_first_removes_all(self, value) ==
    IF index(self, value) # None
    THEN Ok([self EXCEPT !.deque = SelectSeq(self.deque, LAMBDA x : x # value)],
            Some(value))
    ELSE Ok(self, None)

remove_first(self, value) ==
    LET pos == index(self, value)
    IN  IF pos # None THEN remove(self, pos[1]) ELSE Ok(self, None)

retain_inverted(self, keep) ==
    Ok([self EXCEPT !.deque = SelectSeq(self.deque, LAMBDA x : x \notin keep)],
       self.deque)

\* The predicate is given by the set of values it accepts; ret is the sequence
\* of elements the predicate was called with.
retain(self, keep) ==
    Ok([self EXCEPT !.deque = SelectSeq(self.deque, LAMBDA x : x \in keep)],
       self.deque)

\* The in-place modification a retain_mut closure makes when it modifies.
Mutated(x) == (x % MaxValue) + 1

\* The closure modifies the element (when bump) and then decides on the
\* modified element; ret is the sequence of elements it was called with.
retain_mut(self, keep, bump) ==
    LET seen == [i \in 1..Len(self.deque) |->
                    IF bump THEN Mutated(self.deque[i]) ELSE self.deque[i]]
    IN  Ok([self EXCEPT !.deque = SelectSeq(seen, LAMBDA x : x \in keep)],
           self.deque)

\* ------------------------------------------------- access through &mut T
\* The methods below hand out mutable references; write is what the caller
\* does with an element through one (a function from the old value to the
\* new one).  ret is what the references pointed to when they were handed out.
get_mut(self, idx, write) ==
    IF idx < Len(self.deque)
    THEN Ok([self EXCEPT !.deque[idx + 1] = write[self.deque[idx + 1]]],
            Some(self.deque[idx + 1]))
    ELSE Ok(self, None)

front_mut(self, write) == get_mut(self, 0, write)

\* VecDeque::back_mut is get_mut(len.wrapping_sub(1)).
back_mut(self, write) ==
    IF Len(self.deque) = 0 THEN Ok(self, None)
    ELSE get_mut(self, Len(self.deque) - 1, write)

\* IndexMut<usize>::index_mut, deque[idx] = ..: VecDeque's index_mut is
\* get_mut(idx).expect("Out of bounds access").
IndexMut_index_mut(self, idx, write) ==
    IF idx < Len(self.deque)
    THEN Ok([self EXCEPT !.deque[idx + 1] = write[self.deque[idx + 1]]],
            self.deque[idx + 1])
    ELSE Panic(self)

\* Deque::iter_mut, run to its end: every element is visited front to back.
iter_mut(self) == self.deque

WrittenThrough(self, write, r) ==
    Ok([self EXCEPT !.deque = [i \in 1..Len(self.deque) |->
                                  write[self.deque[i]]]], r)

\* IntoIterator for &mut Deque<T>: self.deque.iter_mut().
IntoIterator_mut_into_iter(self) == iter_mut(self)

\* Deque::as_mut_slices: the elements as two slices, the first split of them
\* in the front one (where the storage wraps around).
as_mut_slices(self, split) ==
    <<SubSeq(self.deque, 1, split), SubSeq(self.deque, split + 1, Len(self.deque))>>

\* Deque::make_contiguous: the elements as one slice; their order stays.
make_contiguous(self) == self.deque

\* Clone::clone_from (derived Clone has the default): *self = source.clone().
clone_from(self, source) == Ok(clone(source), None)

\* Deque::range in place of Deque::drain: the elements are yielded and stay.
drain_leaves_elements(self, start, end) ==
    IF start > end \/ end > Len(self.deque)
    THEN Panic(self)
    ELSE Ok(self, SubSeq(self.deque, start + 1, end))

\* Clamps the range to the deque instead of rejecting it.
drain_clamps_range(self, start, end) ==
    LET stop == Min(end, Len(self.deque))
        first == Min(start, stop)
    IN  Ok([self EXCEPT !.deque = SubSeq(self.deque, 1, first)
                                  \o SubSeq(self.deque, stop + 1, Len(self.deque))],
           SubSeq(self.deque, first + 1, stop))

\* drain(start..end), the returned iterator consumed or dropped; ret is the
\* sequence of drained elements.
drain(self, start, end) ==
    IF start > end \/ end > Len(self.deque)
    THEN Panic(self)
    ELSE Ok([self EXCEPT !.deque = SubSeq(self.deque, 1, start)
                                   \o SubSeq(self.deque, end + 1, Len(self.deque))],
            SubSeq(self.deque, start + 1, end))

\* Moves the back towards the front.
rotate_left_rotates_right(self, n) ==
    IF n > Len(self.deque)
    THEN Panic(self)
    ELSE Ok([self EXCEPT !.deque =
                 SubSeq(self.deque, Len(self.deque) - n + 1, Len(self.deque))
                 \o SubSeq(self.deque, 1, Len(self.deque) - n)], None)

\* VecDeque::rotate_left asserts n <= len() before moving anything.
rotate_left(self, n) ==
    IF n > Len(self.deque)
    THEN Panic(self)
    ELSE Ok([self EXCEPT !.deque = SubSeq(self.deque, n + 1, Len(self.deque))
                                   \o SubSeq(self.deque, 1, n)], None)

\* Reduces n modulo len() instead of rejecting n > len().
rotate_right_wraps(self, n) ==
    IF Len(self.deque) = 0
    THEN Ok(self, None)
    ELSE LET k == n % Len(self.deque)
         IN  Ok([self EXCEPT !.deque =
                     SubSeq(self.deque, Len(self.deque) - k + 1, Len(self.deque))
                     \o SubSeq(self.deque, 1, Len(self.deque) - k)], None)

\* VecDeque::rotate_right asserts n <= len() before moving anything.
rotate_right(self, n) ==
    IF n > Len(self.deque)
    THEN Panic(self)
    ELSE Ok([self EXCEPT !.deque =
                 SubSeq(self.deque, Len(self.deque) - n + 1, Len(self.deque))
                 \o SubSeq(self.deque, 1, Len(self.deque) - n)], None)

\* Reverses a copy of the elements.
reverse_of_copy(self) == Ok(self, None)

reverse(self) == Ok([self EXCEPT !.deque = Reverse(self.deque)], None)

\* Copies the element at j over the one at i.
swap_overwrites(self, i, j) ==
    IF i >= Len(self.deque) \/ j >= Len(self.deque)
    THEN Panic(self)
    ELSE Ok([self EXCEPT !.deque =
                 [self.deque EXCEPT ![i + 1] = self.deque[j + 1]]], None)

\* VecDeque::swap asserts i < len() and j < len() before exchanging.
swap(self, i, j) ==
    IF i >= Len(self.deque) \/ j >= Len(self.deque)
    THEN Panic(self)
    ELSE Ok([self EXCEPT !.deque =
                 [self.deque EXCEPT ![i + 1] = self.deque[j + 1],
                                    ![j + 1] = self.deque[i + 1]]], None)

\* ------------------------------------------------------------------- state
VARIABLES
    deque,      \* Deque::deque, front to back
    maxlen,     \* Deque::maxlen
    cap,        \* capacity of the storage of Deque::deque
    op,         \* name of the constructor or method called last
    args,       \* its arguments
    ret,        \* its return value
    panicked,   \* whether it panicked
    pre,        \* the elements before the call
    premaxlen,  \* maxlen before the call
    precap      \* capacity of the storage before the call

vars == <<deque, maxlen, cap, op, args, ret, panicked, pre, premaxlen, precap>>

Self == [deque |-> deque, maxlen |-> maxlen, cap |-> cap]

\* The deque as it was before the last call.
Before == [deque |-> pre, maxlen |-> premaxlen, cap |-> precap]

NoArgs == [value |-> 0, i |-> 0, j |-> 0, items |-> <<>>, lowers |-> <<>>,
           upper |-> None, keep |-> {}, bump |-> FALSE]

Constructors == {"new", "from", "from_vec", "from_vec_deque", "from_tuple_value",
                 "from_tuple_array", "from_tuple_vec", "from_tuple_vec_deque",
                 "from_iter"}

\* Deque values rebuilt from a sequence alone.
Rebuilders == {"from_iter", "deserialize"}

SeqConstructors == {"from_vec", "from_vec_deque", "from_tuple_array",
                    "from_tuple_vec", "from_tuple_vec_deque"}

Construct(name, a, d) ==
    /\ deque = d.deque
    /\ maxlen = d.maxlen
    /\ cap = d.cap
    /\ op = name
    /\ args = a
    /\ ret = None
    /\ panicked = FALSE
    /\ pre = <<>>
    /\ premaxlen = d.maxlen
    /\ precap = d.cap

\* args.i holds the maxlen argument of a constructor, args.j the spare room of
\* its source, args.upper the size hint given to deserialize.
Init ==
    \/ \E m \in 0..MaxMaxlen :
          Construct("new", [NoArgs EXCEPT !.i = m], new(m))
    \/ \E m \in 0..MaxMaxlen, v \in Values :
          \/ Construct("from", [NoArgs EXCEPT !.i = m, !.value = v], from(v, m))
          \/ Construct("from_tuple_value", [NoArgs EXCEPT !.i = m, !.value = v],
                       from_tuple_value(v, m))
    \/ \E m \in 0..MaxMaxlen, s \in SeqsUpTo(MaxDequeLen) :
          Construct("from_tuple_array", [NoArgs EXCEPT !.i = m, !.items = s],
                    from_tuple_array(s, m))
    \/ \E m \in 0..MaxMaxlen, s \in SeqsUpTo(MaxDequeLen) :
        \E r \in SourceSpares(Len(s)) :
          LET a == [NoArgs EXCEPT !.i = m, !.items = s, !.j = r]
          IN  \/ Construct("from_vec", a, from_vec(s, m, r))
              \/ Construct("from_vec_deque", a, from_vec_deque(s, m, r))
              \/ Construct("from_tuple_vec", a, from_tuple_vec(s, m, r))
              \/ Construct("from_tuple_vec_deque", a,
                           from_tuple_vec_deque(s, m, r))
    \/ \E s \in SeqsUpTo(MaxMaxlen) : \E r \in SourceSpares(Len(s)) :
          Construct("from_iter", [NoArgs EXCEPT !.i = Len(s), !.items = s, !.j = r],
                    from_iter(s, r))
    \/ \E s \in SeqsUpTo(MaxMaxlen) : \E h \in {None, Some(Len(s))} :
          Construct("deserialize",
                    [NoArgs EXCEPT !.i = Len(s), !.items = s, !.upper = h],
                    deserialize(s, h))

\* A call of a method: r is the method's result on Self.  A panic ends the run.
Step(name, a, r) ==
    /\ ~panicked
    /\ Len(r.self.deque) <= maxlen + MaxExcess
    /\ deque' = r.self.deque
    /\ maxlen' = r.self.maxlen
    /\ cap' = r.self.cap
    /\ op' = name
    /\ args' = a
    /\ ret' = r.ret
    /\ panicked' = r.panic
    /\ pre' = deque
    /\ premaxlen' = maxlen
    /\ precap' = cap

Indices == 0..MaxDequeLen

\* The size_hint of an iterator yielding n items, before (upper) and while
\* (lowers) it is consumed: nothing known (from_fn) or exact (a Vec, an
\* array, a slice).
UnknownHint(n) == [lowers |-> [k \in 1..n |-> 0], upper |-> None]

ExactHint(n) == [lowers |-> [k \in 1..n |-> n - k], upper |-> Some(n)]

SizeHints(n) == {UnknownHint(n), ExactHint(n)}

\* The size_hint of a filter that dropped none of its f items, chained with
\* n - f items of known number: the lower bound stays at n - f while the
\* filter is consumed (f = n: a filter alone, f = 0: an exact iterator).
ChainHints(n) ==
    {[lowers |-> [k \in 1..n |-> IF k <= f THEN n - f ELSE n - k],
      upper |-> Some(n)] : f \in 0..n}

\* The size_hint of a filter that yields n items and dropped one.
FilterHints(n) == {[lowers |-> [k \in 1..n |-> 0], upper |-> Some(n + 1)]}

\* What the callers of the model do through a mutable reference: replace the
\* element by the next value (args.bump).
Write == [x \in Values |-> Mutated(x)]

\* The deques the model clones from.
CloneSources ==
    {new(m) : m \in 0..MaxMaxlen} \cup {from(MaxValue, m) : m \in 0..MaxMaxlen}

PushBack ==
    \E v \in Values :
        Step("push_back", [NoArgs EXCEPT !.value = v], push_back(Self, v))

PushFront ==
    \E v \in Values :
        Step("push_front", [NoArgs EXCEPT !.value = v], push_front(Self, v))

PopFront == Step("pop_front", NoArgs, pop_front(Self))

PopBack == Step("pop_back", NoArgs, pop_back(Self))

Insert ==
    \E i \in Indices, v \in Values :
        Step("insert", [NoArgs EXCEPT !.i = i, !.value = v], insert(Self, i, v))

Extend ==
    \E s \in SeqsUpTo(MaxIterLen) :
        \E h \in SizeHints(Len(s)) :
            Step("extend",
                 [NoArgs EXCEPT !.items = s, !.lowers = h.lowers,
                                !.upper = h.upper],
                 extend(Self, s, h.lowers, h.upper))

ExtendFront ==
    \E s \in SeqsUpTo(MaxIterLen) :
        Step("extend_front", [NoArgs EXCEPT !.items = s], extend_front(Self, s))

Clear == Step("clear", NoArgs, clear(Self))

TruncateCall ==
    \E n \in Indices :
        Step("truncate", [NoArgs EXCEPT !.i = n], truncate(Self, n))

Remove ==
    \E i \in Indices :
        Step("remove", [NoArgs EXCEPT !.i = i], remove(Self, i))

RemoveFirst ==
    \E v \in Values :
        Step("remove_first", [NoArgs EXCEPT !.value = v], remove_first(Self, v))

Retain ==
    \E k \in SUBSET Values :
        Step("retain", [NoArgs EXCEPT !.keep = k], retain(Self, k))

RetainMut ==
    \E k \in SUBSET Values, b \in BOOLEAN :
        Step("retain_mut", [NoArgs EXCEPT !.keep = k, !.bump = b],
             retain_mut(Self, k, b))

Drain ==
    \E i \in Indices, j \in Indices :
        Step("drain", [NoArgs EXCEPT !.i = i, !.j = j], drain(Self, i, j))

RotateLeft ==
    \E n \in Indices :
        Step("rotate_left", [NoArgs EXCEPT !.i = n], rotate_left(Self, n))

RotateRight ==
    \E n \in Indices :
        Step("rotate_right", [NoArgs EXCEPT !.i = n], rotate_right(Self, n))

ReverseCall == Step("reverse", NoArgs, reverse(Self))

Swap ==
    \E i \in Indices, j \in Indices :
        Step("swap", [NoArgs EXCEPT !.i = i, !.j = j], swap(Self, i, j))

GetMut ==
    \E i \in Indices :
        Step("get_mut", [NoArgs EXCEPT !.i = i, !.bump = TRUE],
             get_mut(Self, i, Write))

FrontMut ==
    Step("front_mut", [NoArgs EXCEPT !.bump = TRUE], front_mut(Self, Write))

BackMut ==
    Step("back_mut", [NoArgs EXCEPT !.bump = TRUE], back_mut(Self, Write))

IndexMut ==
    \E i \in Indices :
        Step("index_mut", [NoArgs EXCEPT !.i = i, !.bump = TRUE],
             IndexMut_index_mut(Self, i, Write))

IterMut ==
    Step("iter_mut", [NoArgs EXCEPT !.bump = TRUE],
         WrittenThrough(Self, Write, iter_mut(Self)))

IntoIterMut ==
    Step("into_iter_mut", [NoArgs EXCEPT !.bump = TRUE],
         WrittenThrough(Self, Write, IntoIterator_mut_into_iter(Self)))

AsMutSlices ==
    \E k \in Splits(Len(deque)) :
        Step("as_mut_slices", [NoArgs EXCEPT !.i = k, !.bump = TRUE],
             WrittenThrough(Self, Write, as_mut_slices(Self, k)))

MakeContiguous ==
    Step("make_contiguous", [NoArgs EXCEPT !.bump = TRUE],
         WrittenThrough(Self, Write, make_contiguous(Self)))

CloneFrom ==
    \E source \in CloneSources :
        Step("clone_from",
             [NoArgs EXCEPT !.items = source.deque, !.i = source.maxlen],
             clone_from(Self, source))

Next ==
    \/ PushBack
    \/ PushFront
    \/ PopFront
    \/ PopBack
    \/ Insert
    \/ Extend
    \/ ExtendFront
    \/ Clear
    \/ TruncateCall
    \/ Remove
    \/ RemoveFirst
    \/ Retain
    \/ RetainMut
    \/ Drain
    \/ RotateLeft
    \/ RotateRight
    \/ ReverseCall
    \/ Swap
    \/ GetMut
    \/ FrontMut
    \/ BackMut
    \/ IndexMut
    \/ IterMut
    \/ IntoIterMut
    \/ AsMutSlices
    \/ MakeContiguous
    \/ CloneFrom

Spec == Init /\ [][Next]_vars

Methods == {"push_back", "push_front", "pop_front", "pop_back", "insert",
            "extend", "extend_front", "clear", "truncate", "remove",
            "remove_first", "retain", "retain_mut", "drain", "rotate_left", "rotate_right",
            "reverse", "swap", "get_mut", "front_mut", "back_mut", "index_mut",
            "iter_mut", "into_iter_mut", "as_mut_slices", "make_contiguous",
            "extend_ref"}

\* Methods of the traits Deque derives.
Derived == {"clone_from"}

TypeOK ==
    /\ deque \in SeqsUpTo(MaxDequeLen)
    /\ maxlen \in 0..MaxMaxlen
    /\ cap \in 0..(2 * MaxDequeLen + MinNonZeroCap)
    /\ op \in Constructors \cup Rebuilders \cup Methods \cup Derived
    /\ panicked \in BOOLEAN
    /\ pre \in SeqsUpTo(MaxDequeLen)
    /\ premaxlen \in 0..MaxMaxlen
    /\ precap \in 0..(2 * MaxDequeLen + MinNonZeroCap)
\* ------------------------------------------------------------------ claims
\* after[idx] = value and the elements of before keep their order around it.
InsertedAt(before, after, idx, value) ==
    /\ Len(after) = Len(before) + 1
    /\ idx + 1 <= Len(after)
    /\ after[idx + 1] = value
    /\ \A k \in 1..idx : after[k] = before[k]
    /\ \A k \in (idx + 2)..Len(after) : after[k] = before[k - 1]

\* C1: after every method that returns, len() <= maxlen(), for every maxlen
\* a constructor accepts (0 included).
C1_LenWithinMaxlen ==
    (op \in Methods /\ ~panicked) => Len(deque) <= maxlen

\* C2: every constructor returns a deque with len() <= maxlen(), for every
\* maxlen (0 included), and never fails.
C2_ConstructedWithinMaxlen ==
    op \in (Constructors \ {"from_iter"}) => (~panicked /\ Len(deque) <= maxlen)

\* C3: push_back on a full deque returns the old front, keeps len() = maxlen()
\* and yields the old elements without the first followed by value; on a
\* non-full deque it returns None and appends value.
C3_PushBackEviction ==
    op = "push_back" =>
        IF Len(pre) = maxlen
        THEN /\ pre # <<>>
             /\ ret = Some(Head(pre))
             /\ Len(deque) = maxlen
             /\ deque = Tail(pre) \o <<args.value>>
        ELSE /\ ret = None
             /\ deque = pre \o <<args.value>>
             /\ Len(deque) = Len(pre) + 1

\* C4: push_front on a full deque returns the old back, keeps len() = maxlen()
\* and yields value followed by the old elements without the last; on a
\* non-full deque it returns None and prepends value.
C4_PushFrontEviction ==
    op = "push_front" =>
        IF Len(pre) = maxlen
        THEN /\ pre # <<>>
             /\ ret = Some(pre[Len(pre)])
             /\ Len(deque) = maxlen
             /\ deque = <<args.value>> \o SubSeq(pre, 1, Len(pre) - 1)
        ELSE /\ ret = None
             /\ deque = <<args.value>> \o pre

\* C5: an insert that returns, on a full deque, returns the old back, keeps
\* len() = maxlen() and places value at index among the old elements without
\* the last; on a non-full deque it returns None and places value at index
\* among all old elements.
C5_InsertEviction ==
    (op = "insert" /\ ~panicked) =>
        IF Len(pre) = maxlen
        THEN /\ pre # <<>>
             /\ ret = Some(pre[Len(pre)])
             /\ Len(deque) = maxlen
             /\ InsertedAt(SubSeq(pre, 1, Len(pre) - 1), deque,
                           args.i, args.value)
        ELSE /\ ret = None
             /\ InsertedAt(pre, deque, args.i, args.value)

\* C6: insert panics exactly when index > len() on a non-full deque and when
\* index > len() - 1 on a full deque.
C6_InsertPanicsExactly ==
    op = "insert" =>
        (panicked <=> IF Len(pre) = maxlen
                      THEN args.i > Len(pre) - 1
                      ELSE args.i > Len(pre))

\* C7: extend leaves the deque as push_back on each value in iteration order
\* leaves it, in the bulk branch and in the one-at-a-time branch, with or
\* without a reported upper bound.
C7_ExtendIsRepeatedPushBack ==
    op = "extend" =>
        /\ ~panicked
        /\ deque = push_back_each(Before,
                                  args.items).deque

\* maxlen 2 holding [1], extended with [2,1] of known size, holds [2,1].
C7_Witness ==
    /\ op = "extend"
    /\ maxlen = 2
    /\ pre = <<1>>
    /\ args.items = <<2, 1>>
    /\ args.upper = Some(2)
    /\ deque = <<2, 1>>

\* push_front on each value in iteration order, from the left.
RECURSIVE PushFrontInOrder(_, _)
PushFrontInOrder(self, items) ==
    IF items = <<>> THEN self
    ELSE PushFrontInOrder(push_front(self, Head(items)).self, Tail(items))

\* C8: extend_front leaves the deque as push_front on each value in iteration
\* order leaves it: a prefix of the values in reverse iteration order followed
\* by the old elements, cut at the back.
C8_ExtendFrontIsRepeatedPushFront ==
    op = "extend_front" =>
        LET whole == Reverse(args.items) \o pre
        IN  /\ ~panicked
            /\ deque = PushFrontInOrder(Before,
                                        args.items).deque
            /\ Len(deque) <= Len(whole)
            /\ deque = SubSeq(whole, 1, Len(deque))

\* [2,1] with maxlen 3 and extend_front([1,2]) holds [2,1,2]: the second
\* push_front evicted the old back.
C8_Witness ==
    /\ op = "extend_front"
    /\ maxlen = 3
    /\ pre = <<2, 1>>
    /\ args.items = <<1, 2>>
    /\ deque = <<2, 1, 2>>

\* C9: a deque built from a sequence of length L with maxlen C holds the first
\* min(L, C) source elements in order and has maxlen() = C.
C9_ConstructionKeepsHead ==
    op \in SeqConstructors =>
        /\ maxlen = args.i
        /\ Len(deque) = Min(Len(args.items), args.i)
        /\ \A k \in 1..Len(deque) : deque[k] = args.items[k]

\* A source longer than maxlen whose head and tail differ.
C9_Witness ==
    /\ op \in SeqConstructors
    /\ maxlen = 2
    /\ args.items = <<1, 1, 2>>
    /\ deque = <<1, 1>>

\* C10 (as stated): no public operation on an existing deque changes
\* maxlen().
C10_MaxlenFixed == [][maxlen' = maxlen]_vars

\* C10 (amended): no method of Deque changes maxlen(); clone_from, which
\* replaces the whole value by a clone of its source, leaves the maxlen of
\* the source.
C10_MaxlenFixedByMethods ==
    [][/\ op' \in Methods => maxlen' = maxlen
       /\ op' = "clone_from" => maxlen' = args'.i]_vars

\* clear has emptied a non-empty deque and maxlen is as constructed.
C10_Witness ==
    /\ op = "clear"
    /\ pre # <<>>
    /\ deque = <<>>
    /\ maxlen = MaxMaxlen

\* C11 (as stated): in every reachable state capacity() == maxlen().
C11_CapacityIsMaxlen == capacity(Self) = maxlen

\* C11 (amended): capacity() is the capacity of the storage capped at
\* maxlen(): it never exceeds maxlen(), is never below min(len(), maxlen()),
\* and equals maxlen() for a deque just built by new(maxlen).
C11_CapacityCappedAtMaxlen ==
    /\ capacity(Self) <= maxlen
    /\ capacity(Self) >= Min(Len(deque), maxlen)
    /\ (op = "new" => capacity(Self) = maxlen)

\* from(value, 3) holds one element in storage for one: capacity() is 1.
C11_Witness ==
    /\ op = "from"
    /\ maxlen = 3
    /\ Len(deque) = 1
    /\ capacity(Self) = 1

\* C12: is_full() is true exactly when len() == maxlen(); remaining_capacity()
\* is maxlen() - len() when len() <= maxlen() and 0 otherwise; is_empty() is
\* true exactly when len() == 0.
C12_FullnessQueries ==
    /\ is_full(Self) <=> (Len(deque) = maxlen)
    /\ (Len(deque) <= maxlen => remaining_capacity(Self) + Len(deque) = maxlen)
    /\ (Len(deque) > maxlen => remaining_capacity(Self) = 0)
    /\ is_empty(Self) <=> (deque = <<>>)

\* A full deque of three after a retain that kept one element: not full, two
\* places remaining.
C12_Witness ==
    /\ op = "retain"
    /\ maxlen = 3
    /\ Len(pre) = 3
    /\ Len(deque) = 1
    /\ ~is_full(Self)
    /\ ~is_empty(Self)
    /\ remaining_capacity(Self) = 2

\* C13: for a deque with len() <= maxlen(), from_vec of its elements front to
\* back and its capacity() compares equal to it.
C13_RoundTrip ==
    Len(deque) <= maxlen =>
        \A r \in SourceSpares(Len(deque)) :
            eq(from_vec(into_iter(Self), capacity(Self), r), Self)

\* Two elements in storage for exactly two, below maxlen: the rebuilt deque is
\* cut at capacity() = len().
C13_Witness ==
    /\ op = "swap"
    /\ deque = <<2, 1>>
    /\ maxlen = 3
    /\ capacity(Self) = 2
    /\ from_vec(into_iter(Self), capacity(Self), 0).deque = <<2, 1>>

\* Deques the reachable one is compared with: every element sequence, with
\* the smallest maxlen that holds it and with the largest maxlen.
OtherDeques ==
    UNION {{from_vec(s, m, 0) : m \in {Len(s), MaxMaxlen}} :
              s \in SeqsUpTo(MaxDequeLen)}

SameElements(a, b) ==
    /\ Len(a) = Len(b)
    /\ \A i \in 1..Len(a) : a[i] = b[i]

\* C14: two deques are equal exactly when their element sequences have the
\* same length and equal elements at every index, whatever their maxlen; a
\* Deque and a VecDeque compare the same way in both argument orders.
C14_EqualityIgnoresMaxlen ==
    \A other \in OtherDeques :
        /\ eq(Self, other) <=> SameElements(deque, other.deque)
        /\ eq_vec_deque(Self, other.deque) <=> SameElements(deque, other.deque)
        /\ vec_deque_eq(other.deque, Self) <=> SameElements(other.deque, deque)

\* [1,2] with maxlen 3 equals [1,2] with maxlen 2.
C14_Witness ==
    /\ deque = <<1, 2>>
    /\ maxlen = 3
    /\ from_vec(<<1, 2>>, 2, 0).maxlen = 2
    /\ from_vec(<<1, 2>>, 2, 0) \in OtherDeques
    /\ eq(Self, from_vec(<<1, 2>>, 2, 0))
    /\ ~eq(Self, from_vec(<<2, 1>>, 3, 0))

\* after is before without its element at position k (1-based).
RemovedAt(before, after, k) ==
    /\ Len(after) = Len(before) - 1
    /\ \A i \in 1..(k - 1) : after[i] = before[i]
    /\ \A i \in k..Len(after) : after[i] = before[i + 1]

\* C15: pop_front() on a non-empty deque returns the element at index 0,
\* pop_back() the element at index len()-1, the others staying in order; on
\* an empty deque both return None and change nothing; neither panics.
C15_PopEnds ==
    /\ op = "pop_front" =>
          /\ ~panicked
          /\ IF pre = <<>>
             THEN ret = None /\ deque = pre
             ELSE ret = Some(pre[1]) /\ RemovedAt(pre, deque, 1)
    /\ op = "pop_back" =>
          /\ ~panicked
          /\ IF pre = <<>>
             THEN ret = None /\ deque = pre
             ELSE ret = Some(pre[Len(pre)]) /\ RemovedAt(pre, deque, Len(pre))

\* pop_back on [1,2] returned 2 and left [1].
C15_Witness ==
    /\ op = "pop_back"
    /\ pre = <<1, 2>>
    /\ ret = Some(2)
    /\ deque = <<1>>

\* C16: remove(index) with index < len() returns the element at index and
\* keeps the others in order; with index >= len() it returns None and changes
\* nothing; it never panics.
C16_RemoveAtIndex ==
    op = "remove" =>
        /\ ~panicked
        /\ IF args.i < Len(pre)
           THEN ret = Some(pre[args.i + 1]) /\ RemovedAt(pre, deque, args.i + 1)
           ELSE ret = None /\ deque = pre

\* remove(0) on [1,1,2] returned 1 and left [1,2].
C16_Witness ==
    /\ op = "remove"
    /\ pre = <<1, 1, 2>>
    /\ args.i = 0
    /\ ret = Some(1)
    /\ deque = <<1, 2>>

\* C17: remove_first(value) removes the element at the smallest index whose
\* element equals value and returns it, the others (later equal ones too)
\* staying in order; without such an element it returns None and changes
\* nothing.
C17_RemoveFirstMatch ==
    op = "remove_first" =>
        /\ ~panicked
        /\ IF \E i \in 1..Len(pre) : pre[i] = args.value
           THEN \E k \in 1..Len(pre) :
                    /\ pre[k] = args.value
                    /\ \A i \in 1..(k - 1) : pre[i] # args.value
                    /\ ret = Some(args.value)
                    /\ RemovedAt(pre, deque, k)
           ELSE ret = None /\ deque = pre

\* remove_first(2) on [1,2,2] left [1,2]: the later 2 stays.
C17_Witness ==
    /\ op = "remove_first"
    /\ pre = <<1, 2, 2>>
    /\ args.value = 2
    /\ ret = Some(2)
    /\ deque = <<1, 2>>

\* The positions of seen whose element is in keep, and the k-th of them.
KeptPositions(seen, keep) == {i \in 1..Len(seen) : seen[i] \in keep}

KthKept(seen, keep, k) ==
    CHOOSE i \in KeptPositions(seen, keep) :
        Cardinality({j \in KeptPositions(seen, keep) : j <= i}) = k

\* after holds exactly the elements of seen that are in keep, in order.
KeptInOrder(seen, after, keep) ==
    /\ Len(after) = Cardinality(KeptPositions(seen, keep))
    /\ \A k \in 1..Len(after) : after[k] = seen[KthKept(seen, keep, k)]

\* C18: retain(p) leaves exactly the elements p accepts, in their order,
\* calling p once per element front to back; accepting all changes nothing,
\* accepting none empties the deque; retain_mut decides on, and keeps, the
\* element as modified by the closure.
C18_RetainKeepsAccepted ==
    /\ op = "retain" =>
          /\ ~panicked
          /\ ret = pre
          /\ KeptInOrder(pre, deque, args.keep)
          /\ (args.keep = Values => deque = pre)
          /\ (args.keep = {} => deque = <<>>)
    /\ op = "retain_mut" =>
          /\ ~panicked
          /\ ret = pre
          /\ KeptInOrder([i \in 1..Len(pre) |->
                             IF args.bump THEN Mutated(pre[i]) ELSE pre[i]],
                         deque, args.keep)

\* retain accepting only 2 on [2,1,2] left [2,2].
C18_Witness ==
    /\ op = "retain"
    /\ pre = <<2, 1, 2>>
    /\ args.keep = {2}
    /\ deque = <<2, 2>>

\* C19: reverse() replaces the elements by their reversal, keeps len() and
\* maxlen(), and a second reverse() restores the elements.
C19_ReverseInvolution ==
    op = "reverse" =>
        /\ ~panicked
        /\ Len(deque) = Len(pre)
        /\ \A i \in 1..Len(pre) : deque[i] = pre[Len(pre) + 1 - i]
        /\ reverse(Self).self.deque = pre
        /\ reverse(Self).self.maxlen = maxlen

\* reverse on [1,2,2] left [2,2,1].
C19_Witness ==
    /\ op = "reverse"
    /\ pre = <<1, 2, 2>>
    /\ deque = <<2, 2, 1>>

\* C20: drain(start..end) with start <= end <= len() yields the elements at
\* start..end in order and leaves the elements before start followed by those
\* from end on.
C20_DrainRemovesRange ==
    (op = "drain" /\ args.i <= args.j /\ args.j <= Len(pre)) =>
        /\ ~panicked
        /\ Len(ret) = args.j - args.i
        /\ \A k \in 1..Len(ret) : ret[k] = pre[args.i + k]
        /\ Len(deque) = Len(pre) - (args.j - args.i)
        /\ \A k \in 1..args.i : deque[k] = pre[k]
        /\ \A k \in (args.i + 1)..Len(deque) :
               deque[k] = pre[k + (args.j - args.i)]

\* drain(1..2) on [1,2,1] yielded [2] and left [1,1].
C20_Witness ==
    /\ op = "drain"
    /\ pre = <<1, 2, 1>>
    /\ args.i = 1
    /\ args.j = 2
    /\ ret = <<2>>
    /\ deque = <<1, 1>>

\* Indices and amounts the queries and the failing calls are probed with.
Probes == 0..(MaxDequeLen + 1)

\* C21: drain(start..end) with start > end or end > len() panics, and the
\* elements and maxlen are as before the call.
C21_DrainBoundsFault ==
    /\ (op = "drain" /\ (args.i > args.j \/ args.j > Len(pre))) =>
          /\ panicked
          /\ deque = pre
    /\ \A i \in Probes, j \in Probes :
          (i > j \/ j > Len(deque)) =>
              /\ drain(Self, i, j).panic
              /\ drain(Self, i, j).self = Self

\* drain(2..1) on [1,2] panicked and left [1,2].
C21_Witness ==
    /\ op = "drain"
    /\ pre = <<1, 2>>
    /\ args.i = 2
    /\ args.j = 1
    /\ panicked
    /\ deque = <<1, 2>>

\* Number of positions of s holding v.
Count(s, v) == Cardinality({i \in 1..Len(s) : s[i] = v})

SameMultiset(a, b) == \A v \in Values : Count(a, v) = Count(b, v)

\* C22: for n <= len(), rotate_left(n) yields new[i] = old[(i + n) mod len]
\* and rotate_right(n) yields new[(i + n) mod len] = old[i]; both keep len()
\* and the multiset of elements; rotate_right(n) after rotate_left(n)
\* restores the elements; n = 0 and n = len() change nothing.
C22_RotateShifts ==
    /\ (op = "rotate_left" /\ args.i <= Len(pre)) =>
          /\ ~panicked
          /\ Len(deque) = Len(pre)
          /\ \A i \in 0..(Len(pre) - 1) :
                 deque[i + 1] = pre[((i + args.i) % Len(pre)) + 1]
          /\ SameMultiset(deque, pre)
          /\ ~rotate_right(Self, args.i).panic
          /\ rotate_right(Self, args.i).self.deque = pre
          /\ (args.i \in {0, Len(pre)} => deque = pre)
    /\ (op = "rotate_right" /\ args.i <= Len(pre)) =>
          /\ ~panicked
          /\ Len(deque) = Len(pre)
          /\ \A i \in 0..(Len(pre) - 1) :
                 deque[((i + args.i) % Len(pre)) + 1] = pre[i + 1]
          /\ SameMultiset(deque, pre)
          /\ (args.i \in {0, Len(pre)} => deque = pre)

\* rotate_left(1) on [1,2,2] left [2,2,1].
C22_Witness ==
    /\ op = "rotate_left"
    /\ pre = <<1, 2, 2>>
    /\ args.i = 1
    /\ deque = <<2, 2, 1>>
    /\ rotate_right(Self, 1).self.deque = <<1, 2, 2>>

\* C23: rotate_left(n) and rotate_right(n) panic exactly when n > len(), and
\* a rotate that panicked leaves the elements as they were.
C23_RotatePanicsExactly ==
    /\ op \in {"rotate_left", "rotate_right"} =>
          /\ panicked <=> args.i > Len(pre)
          /\ panicked => deque = pre
    /\ \A n \in Probes :
          /\ rotate_left(Self, n).panic <=> n > Len(deque)
          /\ rotate_right(Self, n).panic <=> n > Len(deque)
          /\ n > Len(deque) =>
                /\ rotate_left(Self, n).self = Self
                /\ rotate_right(Self, n).self = Self

\* rotate_right(1) on an empty deque panicked.
C23_Witness ==
    /\ op = "rotate_right"
    /\ pre = <<>>
    /\ args.i = 1
    /\ panicked
    /\ deque = <<>>

\* C24: truncate(n) with n < len() keeps exactly the first n elements, with
\* n >= len() changes nothing, and remaining_capacity() afterwards is
\* maxlen() - min(n, old len).
C24_TruncateKeepsHead ==
    op = "truncate" =>
        /\ ~panicked
        /\ deque = (IF args.i < Len(pre) THEN SubSeq(pre, 1, args.i) ELSE pre)
        /\ remaining_capacity(Self) = maxlen - Min(args.i, Len(pre))

\* C25: swap(i, j) with both indices < len() exchanges the elements at i and
\* j and leaves the other positions, len() and maxlen() as they were;
\* swap(i, i) changes nothing; with an index >= len() it panics and the
\* elements are unchanged.
C25_SwapExchanges ==
    /\ op = "swap" =>
          IF args.i < Len(pre) /\ args.j < Len(pre)
          THEN /\ ~panicked
               /\ Len(deque) = Len(pre)
               /\ deque[args.i + 1] = pre[args.j + 1]
               /\ deque[args.j + 1] = pre[args.i + 1]
               /\ \A k \in 1..Len(pre) :
                      k \notin {args.i + 1, args.j + 1} => deque[k] = pre[k]
               /\ (args.i = args.j => deque = pre)
          ELSE /\ panicked
               /\ deque = pre
    /\ \A i \in Probes, j \in Probes :
          /\ swap(Self, i, j).self.maxlen = maxlen
          /\ (i >= Len(deque) \/ j >= Len(deque)) =>
                /\ swap(Self, i, j).panic
                /\ swap(Self, i, j).self = Self

\* swap(0, 2) on [1,2,2] left [2,2,1].
C25_Witness ==
    /\ op = "swap"
    /\ pre = <<1, 2, 2>>
    /\ args.i = 0
    /\ args.j = 2
    /\ deque = <<2, 2, 1>>

\* C26: get(index) is Some(element at index) exactly when index < len() and
\* None otherwise; deque[index] is that element when index < len() and
\* panics exactly when index >= len(); front() and back() are None exactly
\* on the empty deque and otherwise get(0) and get(len() - 1).
C26_Access ==
    /\ \A i \in Probes :
          /\ get(Self, i) # None <=> i < Len(deque)
          /\ i < Len(deque) => get(Self, i) = Some(deque[i + 1])
          /\ Index_index(Self, i).panic <=> i >= Len(deque)
          /\ i < Len(deque) =>
                /\ Index_index(Self, i).ret = deque[i + 1]
                /\ Some(Index_index(Self, i).ret) = get(Self, i)
          /\ Index_index(Self, i).self = Self
    /\ front(Self) = None <=> deque = <<>>
    /\ back(Self) = None <=> deque = <<>>
    /\ deque # <<>> =>
          /\ front(Self) = get(Self, 0)
          /\ front(Self) = Some(deque[1])
          /\ back(Self) = get(Self, Len(deque) - 1)
          /\ back(Self) = Some(deque[Len(deque)])

\* On [1,2] after a push_back: get(1) and back() are 2, front() is 1, get(2)
\* is None and deque[2] panics.
C26_Witness ==
    /\ op = "push_back"
    /\ deque = <<1, 2>>
    /\ get(Self, 1) = Some(2)
    /\ get(Self, 2) = None
    /\ Index_index(Self, 2).panic
    /\ Index_index(Self, 0).ret = 1
    /\ front(Self) = Some(1)
    /\ back(Self) = Some(2)

\* C27: index_range(value, start, end) is the smallest i with
\* start <= i < min(end, len()) whose element equals value, or None without
\* such an i; it is None whenever start >= min(end, len()); and
\* index_range(value, 0, len()) is index(value).
C27_IndexRange ==
    /\ \A start \in Probes, end \in Probes :
          LET stop == Min(end, Len(deque))
          IN  \A v \in 0..MaxValue :
                  LET found == index_range(Self, v, start, end)
                  IN  /\ (start >= stop => found = None)
                      /\ IF found = None
                         THEN \A i \in start..(stop - 1) : deque[i + 1] # v
                         ELSE /\ found[1] \in start..(stop - 1)
                              /\ deque[found[1] + 1] = v
                              /\ \A i \in start..(found[1] - 1) :
                                     deque[i + 1] # v
    /\ \A v \in 0..MaxValue :
          index_range(Self, v, 0, Len(deque)) = index(Self, v)

\* On [1,2,2]: the first 2 from index 2 on is at 2, from 0 on at 1, and a
\* range with start > end finds nothing.
C27_Witness ==
    /\ deque = <<1, 2, 2>>
    /\ index_range(Self, 2, 2, 3) = Some(2)
    /\ index_range(Self, 2, 0, 3) = Some(1)
    /\ index_range(Self, 2, 3, 1) = None
    /\ index_range(Self, 1, 1, 3) = None

Sorted(s) == \A i \in 1..(Len(s) - 1) : s[i] <= s[i + 1]

\* The deque with every element doubled, so that searched values below,
\* between and above the elements exist.
Spread(self) ==
    [self EXCEPT !.deque = [i \in 1..Len(self.deque) |-> 2 * self.deque[i]]]

SearchKeys == 1..(2 * MaxValue + 1)

\* C28: on a deque sorted ascending binary_search(x) returns Ok(i) with
\* element i equal to x when x is present and otherwise Err(i) with all
\* elements before i < x and all from i on > x, 0 <= i <= len(); on an empty
\* deque it returns Err(0); on any contents it returns an index within
\* 0..len(), for every layout of the ring buffer.
C28_BinarySearch ==
    LET spread == Spread(Self)
        s == spread.deque
    IN  \A x \in SearchKeys, split \in Splits(Len(deque)) :
            LET r == binary_search(spread, x, split)
            IN  /\ r.found \in BOOLEAN
                /\ r.idx \in 0..Len(s)
                /\ (s = <<>> => r = SearchErr(0))
                /\ Sorted(s) =>
                      /\ r.found <=> \E i \in 1..Len(s) : s[i] = x
                      /\ r.found => (r.idx < Len(s) /\ s[r.idx + 1] = x)
                      /\ ~r.found =>
                            /\ \A k \in 1..r.idx : s[k] < x
                            /\ \A k \in (r.idx + 1)..Len(s) : s[k] > x

\* On the sorted [1,2,2] doubled to [2,4,4]: 3 is absent with insertion
\* point 1, 5 is absent with insertion point 3, 2 is found at 0, whether the
\* elements are contiguous or split after the first.
C28_Witness ==
    /\ deque = <<1, 2, 2>>
    /\ binary_search(Spread(Self), 3, 3) = SearchErr(1)
    /\ binary_search(Spread(Self), 3, 1) = SearchErr(1)
    /\ binary_search(Spread(Self), 5, 3) = SearchErr(3)
    /\ binary_search(Spread(Self), 2, 1) = SearchOk(0)
    /\ binary_search(Spread(Self), 4, 1).found

\* C29: iter_except_last() yields the elements at indices 0 .. len() - 2 in
\* order, max(len() - 1, 0) items, and nothing for an empty or
\* single-element deque.
C29_IterExceptLast ==
    LET out == iter_except_last(Self)
    IN  /\ Len(out) = Max(Len(deque) - 1, 0)
        /\ \A k \in 1..Len(out) : out[k] = deque[k]
        /\ (Len(deque) <= 1 => out = <<>>)

\* On [1,2,2] it yields [1,2].
C29_Witness ==
    /\ deque = <<1, 2, 2>>
    /\ iter_except_last(Self) = <<1, 2>>

\* C30: a deque deserialized from a sequence or collected from an iterator
\* holds the source elements in order with maxlen() = their number, so
\* is_full() holds and remaining_capacity() is 0; this holds for the
\* serialized form and the iteration of every deque, whatever its maxlen.
C30_RebuiltIsFull ==
    /\ op \in Rebuilders =>
          /\ ~panicked
          /\ deque = args.items
          /\ maxlen = Len(args.items)
          /\ is_full(Self)
          /\ remaining_capacity(Self) = 0
    /\ \A again \in {deserialize(serialize(Self), h) :
                         h \in {None, Some(Len(deque))}}
                     \cup {from_iter(into_iter(Self), r) :
                              r \in SourceSpares(Len(deque))} :
          /\ again.deque = deque
          /\ again.maxlen = Len(deque)
          /\ is_full(again)
          /\ remaining_capacity(again) = 0

\* [1,2] with maxlen 3 is not full; collected again it has maxlen 2 and is
\* full.
C30_Witness ==
    /\ deque = <<1, 2>>
    /\ maxlen = 3
    /\ ~is_full(Self)
    /\ from_iter(into_iter(Self), 0).maxlen = 2
    /\ is_full(from_iter(into_iter(Self), 0))
    /\ deserialize(serialize(Self), None).maxlen = 2

\* Methods that add elements, and methods that only take elements away.
Inserters == {"push_back", "push_front", "insert", "extend", "extend_front"}

Removers == {"pop_front", "pop_back", "clear", "truncate", "remove",
             "remove_first", "retain", "drain"}

\* Methods that hand out mutable references to the elements.
InPlace == {"get_mut", "front_mut", "back_mut", "index_mut", "iter_mut",
            "into_iter_mut", "as_mut_slices", "make_contiguous"}

\* a is b with some elements left out, the others in their order.
RECURSIVE IsSubsequence(_, _)
IsSubsequence(a, b) ==
    IF a = <<>> THEN TRUE
    ELSE IF b = <<>> THEN FALSE
    ELSE IF Head(a) = Head(b) THEN IsSubsequence(Tail(a), Tail(b))
    ELSE IsSubsequence(a, Tail(b))

\* C31: after push_back and extend the deque is a suffix of the old elements
\* followed by pushed values; after push_front and extend_front it is pushed
\* values followed by a prefix of the old elements; after insert it is a
\* prefix of the old elements with value placed at index; the methods that
\* take elements away leave the others in their order; the methods that hand
\* out mutable references leave every element at its position, as it was or
\* as the caller rewrote it.
C31_EvictionKeepsOrder ==
    /\ op = "push_back" =>
          \E k \in 0..Len(pre) :
              deque = SubSeq(pre, k + 1, Len(pre)) \o <<args.value>>
    /\ op = "push_front" =>
          \E k \in 0..Len(pre) : deque = <<args.value>> \o SubSeq(pre, 1, k)
    /\ (op = "insert" /\ ~panicked) =>
          \E k \in 0..Len(pre) :
              InsertedAt(SubSeq(pre, 1, k), deque, args.i, args.value)
    /\ op = "extend" =>
          \E k \in 0..Len(pre), n \in 0..Len(args.items) :
              deque = SubSeq(pre, k + 1, Len(pre))
                      \o SubSeq(args.items, n + 1, Len(args.items))
    /\ op = "extend_front" =>
          \E k \in 0..Len(pre), n \in 0..Len(args.items) :
              deque = SubSeq(Reverse(args.items), 1, n) \o SubSeq(pre, 1, k)
    /\ op \in Removers => IsSubsequence(deque, pre)
    /\ (op = "retain_mut" /\ ~args.bump) => IsSubsequence(deque, pre)
    /\ op \in InPlace =>
          /\ Len(deque) = Len(pre)
          /\ \A k \in 1..Len(pre) : deque[k] \in {pre[k], Write[pre[k]]}

\* push_back(1) on the full [1,2,2] left [2,2,1]: the survivors are the
\* suffix [2,2] of the old elements.
C31_Witness ==
    /\ op = "push_back"
    /\ maxlen = 3
    /\ pre = <<1, 2, 2>>
    /\ args.value = 1
    /\ deque = <<2, 2, 1>>
    /\ ~IsSubsequence(reverse(Self).self.deque, deque)

\* ------------------------------------------------ sliding window (C32)
\* Largest number of values pushed to one window.
MaxPushes == 6

\* A deque made by new(C), C >= 1, and used with push_back only; args.items
\* logs the values pushed so far, in push order.
WindowInit ==
    \E m \in 1..MaxMaxlen : Construct("new", [NoArgs EXCEPT !.i = m], new(m))

WindowPush ==
    \E v \in Values :
        /\ Len(args.items) < MaxPushes
        /\ Step("push_back",
                [NoArgs EXCEPT !.value = v, !.items = Append(args.items, v)],
                push_back(Self, v))

WindowNext == WindowPush

WindowSpec == WindowInit /\ [][WindowNext]_vars

\* C32: after n push_back calls on new(C), C >= 1, the deque holds the last
\* min(n, C) pushed values in push order; the first C calls return None and
\* call C + k returns Some of the k-th pushed value.
C32_SlidingWindow ==
    LET n == Len(args.items)
        kept == Min(n, maxlen)
    IN  /\ deque = SubSeq(args.items, n - kept + 1, n)
        /\ op = "push_back" =>
              /\ ~panicked
              /\ ret = (IF n <= maxlen THEN None
                        ELSE Some(args.items[n - maxlen]))

\* The fourth push to a window of two returned the second pushed value.
C32_Witness ==
    /\ op = "push_back"
    /\ maxlen = 2
    /\ args.items = <<1, 2, 2, 1>>
    /\ ret = Some(2)
    /\ deque = <<2, 1>>

\* C33: when is_full() held before a push_back, push_front, accepted insert,
\* extend or extend_front, for any maxlen (0 included), is_full() holds
\* afterwards and len() is unchanged.
C33_FullnessStable ==
    (op \in Inserters /\ ~panicked /\ is_full(Before)) =>
        /\ is_full(Self)
        /\ Len(deque) = Len(pre)

\* C34: for maxlen >= 1, len() <= maxlen() holds in every constructed state
\* and after every method, and push_back, push_front and insert take the
\* branch that adds without evicting only when len() < maxlen().
C34_BoundedForPositiveMaxlen ==
    /\ premaxlen >= 1 => Len(pre) <= premaxlen
    /\ maxlen >= 1 =>
        /\ Len(deque) <= maxlen
        /\ (op \in {"push_back", "push_front", "insert"} /\ ~panicked) =>
              IF Len(pre) = maxlen
              THEN Len(deque) = Len(pre) /\ ret # None
              ELSE Len(pre) < maxlen /\ Len(deque) = Len(pre) + 1 /\ ret = None

\* push_front on the full [1,2] with maxlen 2 evicted 2 and kept len() 2.
C34_Witness ==
    /\ op = "push_front"
    /\ maxlen = 2
    /\ pre = <<1, 2>>
    /\ ret = Some(2)
    /\ Len(deque) = 2

\* C35: an insert that panicked leaves the elements as they were before the
\* call, and len() <= maxlen() holds.
C35_FailedInsertKeepsDeque ==
    (op = "insert" /\ panicked) =>
        /\ deque = pre
        /\ Len(deque) <= maxlen

\* C36: is_full() is true exactly when remaining_capacity() is 0.
C36_FullnessQueriesAgree ==
    is_full(Self) <=> (remaining_capacity(Self) = 0)

\* Same returned value, same elements, same maxlen, same outcome.
SameOutcome(a, b) ==
    /\ a.panic = b.panic
    /\ a.ret = b.ret
    /\ a.self.deque = b.self.deque
    /\ a.self.maxlen = b.self.maxlen

\* C37: in every state insert(0, value) returns and leaves what
\* push_front(value) does, and on a non-full deque insert(len(), value)
\* returns and leaves what push_back(value) does.
C37_InsertAtEnds ==
    /\ \A v \in Values :
          /\ SameOutcome(insert(Self, 0, v), push_front(Self, v))
          /\ ~is_full(Self) =>
                SameOutcome(insert(Self, Len(deque), v), push_back(Self, v))
    /\ (op = "insert" /\ args.i = 0) =>
          /\ ~panicked
          /\ deque = push_front(Before, args.value).self.deque
          /\ ret = push_front(Before, args.value).ret
    /\ (op = "insert" /\ args.i = Len(pre) /\ ~is_full(Before)) =>
          /\ ~panicked
          /\ deque = push_back(Before, args.value).self.deque
          /\ ret = push_back(Before, args.value).ret

\* insert(0, 1) on the full [1,2] with maxlen 2 evicted 2 and left [1,1], as
\* push_front(1) does.
C37_Witness ==
    /\ op = "insert"
    /\ maxlen = 2
    /\ pre = <<1, 2>>
    /\ args.i = 0
    /\ args.value = 1
    /\ ret = Some(2)
    /\ deque = <<1, 1>>
    /\ push_front(Before, 1).self.deque = <<1, 1>>

\* ------------------------------------------- extending by reference (C38)
\* A constructed deque extended from iterators of references, of every kind
\* of size_hint.
ExtendRef ==
    \E s \in SeqsUpTo(MaxIterLen) :
        \E h \in SizeHints(Len(s)) \cup ChainHints(Len(s))
                     \cup FilterHints(Len(s)) :
            Step("extend_ref",
                 [NoArgs EXCEPT !.items = s, !.lowers = h.lowers,
                                !.upper = h.upper],
                 extend_ref(Self, s, h.lowers, h.upper))

ExtendRefNext == ExtendRef

ExtendRefSpec == Init /\ [][ExtendRefNext]_vars

\* C38: extending from references leaves the deque as extending from the
\* same values does, in the bulk branch and in the one-at-a-time branch.
C38_ExtendRefAgrees ==
    op = "extend_ref" =>
        LET by_value == extend(Before, args.items, args.lowers, args.upper)
        IN  /\ ~panicked
            /\ ~by_value.panic
            /\ by_value.ret = ret
            /\ by_value.self.deque = deque
            /\ by_value.self.maxlen = maxlen
            /\ by_value.self.cap = cap

\* [1,2] with maxlen 3 extended with [2,1] of unknown size holds [2,2,1],
\* by reference and by value.
C38_Witness ==
    /\ op = "extend_ref"
    /\ maxlen = 3
    /\ pre = <<1, 2>>
    /\ args.items = <<2, 1>>
    /\ args.upper = None
    /\ deque = <<2, 2, 1>>
    /\ extend(Before, <<2, 1>>, <<0, 0>>, None).self.deque = <<2, 2, 1>>
====
